---- MODULE Spec2Model ----
(***************************************************************************)
(* A model of the two Styx observability scripts:                          *)
(*   src/demo/demo-ycsb/export_metadata.py  (the exporter)                 *)
(*   src/scripts/open_grafana_range.py      (the run browser)              *)
(* The two share only the results directory tree, modelled by fs.          *)
(*                                                                         *)
(* Strings whose characters matter (directory names, keywords, the text    *)
(* typed at the prompt) are sequences of one-character strings.            *)
(***************************************************************************)
EXTENDS Integers, Sequences, FiniteSets, TLC

VARIABLES
    fs,         \* results directory: directory name -> entry
    keywords,   \* args.keyword of the run browser
    bpc,        \* position of the run browser's main()
    runs,       \* the list returned by the last find_runs_by_keyword
    selected,   \* the value returned by the last interactive_select
    opens,      \* number of webbrowser.open calls
    lastUrl,    \* the URL of the last webbrowser.open call
    lastInput,  \* the text last typed at the prompt
    fsAtScan,   \* the results directory as the last scan saw it
    margs,      \* the arguments of the save_metadata call under study
    epc,        \* position of export_all_metrics
    save_dir,   \* the output subdirectory of the running export
    eidx,       \* number of catalog entries the export has completed
    wrote,      \* file name -> number of times the exporter opened it for writing
    asked,      \* metric name -> number of range queries issued for it
    saves,      \* number of save_metadata calls made
    lastResp    \* the last Prometheus response

vars == <<fs, keywords, bpc, runs, selected, opens, lastUrl, lastInput, fsAtScan,
          margs, epc, save_dir, eidx, wrote, asked, saves, lastResp>>
browserVars == <<keywords, bpc, runs, selected, opens, lastUrl, lastInput, fsAtScan>>
exportVars == <<epc, save_dir, eidx, wrote, asked, saves, lastResp>>

-----------------------------------------------------------------------------
(* Bounds of the model *)

MaxKeywords == 2
MaxTs == 3
FallBack == 2
Shift == 1
MaxOpens == 2
MaxSaves == 1

-----------------------------------------------------------------------------
(* Python values *)

None == [t |-> "None"]
Raise == [t |-> "raise"]
IntV(i) == [t |-> "int", i |-> i]
StrV(s) == [t |-> "str", s |-> s]
\* the string datetime.isoformat() gives for the naive wall-clock time w
IsoV(w) == [t |-> "isostr", wall |-> w]
ArrV == [t |-> "array"]
ObjV(f) == [t |-> "object", f |-> f]
\* a naive datetime: wall-clock reading and the fold attribute
DateTime(w, fold) == [t |-> "datetime", wall |-> w, fold |-> fold]

-----------------------------------------------------------------------------
(* str methods used by the run browser *)

UpperOf == [c \in {"a", "b", "q", "u", "i", "t", "e", "x"} |->
              CASE c = "a" -> "A" [] c = "b" -> "B" [] c = "q" -> "Q"
                [] c = "u" -> "U" [] c = "i" -> "I" [] c = "t" -> "T"
                [] c = "e" -> "E" [] c = "x" -> "X"]

LowerChar(c) ==
    IF \E l \in DOMAIN UpperOf : UpperOf[l] = c
    THEN CHOOSE l \in DOMAIN UpperOf : UpperOf[l] = c
    ELSE c

lower(s) == [i \in 1..Len(s) |-> LowerChar(s[i])]

\* sub in s
Contains(sub, s) ==
    \E i \in 0..(Len(s) - Len(sub)) : SubSeq(s, i + 1, i + Len(sub)) = sub

\* code points, for the order sorted() puts names in
Ord == [c \in {"A", "B", "a", "b"} |->
          CASE c = "A" -> 65 [] c = "B" -> 66 [] c = "a" -> 97 [] c = "b" -> 98]

StrLess(s, t) ==
    \/ \E i \in 1..Len(s) :
          /\ i <= Len(t)
          /\ SubSeq(s, 1, i - 1) = SubSeq(t, 1, i - 1)
          /\ Ord[s[i]] < Ord[t[i]]
    \/ /\ Len(s) < Len(t)
       /\ SubSeq(t, 1, Len(s)) = s

RECURSIVE sorted(_)
sorted(S) ==
    IF S = {} THEN <<>>
    ELSE LET m == CHOOSE x \in S : \A y \in S : x = y \/ StrLess(x, y)
         IN  <<m>> \o sorted(S \ {m})

-----------------------------------------------------------------------------
(* The results directory tree.  fs maps every name of DirNames to an entry  *)
(* [kind, meta, files]: kind is "absent", "file" (a plain file of that     *)
(* name) or "dir"; meta is what <name>/metadata.json is; files is the set   *)
(* of metric files in the directory.  A results directory that does not    *)
(* exist is the tree with every entry absent: the scan returns no runs for *)
(* both, and makedirs creates it on the first write.                       *)

DirNames == {<<"A", "b">>, <<"a", "B", "a">>, <<"b">>}

NoMeta == [e |-> "none"]
MetaIsDir == [e |-> "dir"]
\* the directory cannot be searched: stat of <name>/metadata.json is refused
MetaDenied == [e |-> "denied"]
MetaFile(content) == [e |-> "file", content |-> content]

Unreadable == [c |-> "unreadable"]
Malformed == [c |-> "malformed"]
JsonDoc(v) == [c |-> "json", v |-> v]

AbsentEntry == [kind |-> "absent", meta |-> NoMeta, files |-> {}]
PlainFile == [kind |-> "file", meta |-> NoMeta, files |-> {}]
Dir(meta, files) == [kind |-> "dir", meta |-> meta, files |-> files]

-----------------------------------------------------------------------------
(* Local time: a zone whose clock is set back by Shift at the instant      *)
(* FallBack, so the wall-clock readings FallBack .. FallBack+Shift-1 occur *)
(* twice.  Instants are whole seconds since the epoch.                     *)

localtime(u) == u + (IF u < FallBack THEN Shift ELSE 0)

\* datetime.fromtimestamp(ts): fold is 1 on the second occurrence of a reading
fromtimestamp(ts) ==
    DateTime(localtime(ts),
             IF \E u \in (ts - Shift)..(ts - 1) : localtime(u) = localtime(ts)
             THEN 1 ELSE 0)

\* datetime.isoformat(): the fold is not part of the string
isoformat(dt) == IsoV(dt.wall)

\* datetime.fromisoformat(s): raises on anything but an ISO string
fromisoformat(v) ==
    IF v.t = "isostr" THEN DateTime(v.wall, 0) ELSE Raise

\* datetime.timestamp() of a naive datetime: the instant whose local reading
\* is dt.wall, the earlier one for fold 0 and the later one for fold 1
timestamp(dt) ==
    LET sols == {u \in (dt.wall - Shift)..dt.wall : localtime(u) = dt.wall}
    IN  IF dt.fold = 0
        THEN CHOOSE u \in sols : \A v \in sols : u <= v
        ELSE CHOOSE u \in sols : \A v \in sols : u >= v

datetime_to_epoch_ms(dt) == timestamp(dt) * 1000

\* from and to exchanged
build_grafana_url_Swapped(start, end) ==
    [base |-> "http://localhost:3001",
     uid  |-> "beckc0nxpeupsf",
     slug |-> "styx-system-overview",
     from |-> datetime_to_epoch_ms(end),
     to   |-> datetime_to_epoch_ms(start)]

build_grafana_url(start, end) ==
    [base |-> "http://localhost:3001",
     uid  |-> "beckc0nxpeupsf",
     slug |-> "styx-system-overview",
     from |-> datetime_to_epoch_ms(start),
     to   |-> datetime_to_epoch_ms(end)]

-----------------------------------------------------------------------------
(* load_metadata and find_runs_by_keyword *)

json_load(content) == IF content.c = "json" THEN content.v ELSE Raise

\* data[key]: KeyError for a missing key, TypeError for a value that is no object
GetItem(data, key) ==
    IF data.t = "object" /\ key \in DOMAIN data.f THEN data.f[key] ELSE Raise

\* data.get(key)
DictGet(data, key) == IF key \in DOMAIN data.f THEN data.f[key] ELSE None

\* meta_path.is_file() stands before the try blocks: Path.is_file() answers
\* False for a missing path and lets a PermissionError through
load_metadata(dir_name, entry) ==
    IF entry.meta.e = "denied" THEN Raise
    ELSE IF entry.meta.e # "file" THEN None
    ELSE LET data == json_load(entry.meta.content) IN
         IF data.t = "raise" THEN None
         ELSE LET start == fromisoformat(GetItem(data, "start"))
                  end   == fromisoformat(GetItem(data, "end"))
              IN  IF start.t = "raise" \/ end.t = "raise" THEN None
                  ELSE [t |-> "RunMetadata",
                        dir_name |-> dir_name,
                        start |-> start,
                        end |-> end,
                        increase_interval |-> DictGet(data, "increase_interval"),
                        increase_amount |-> DictGet(data, "increase_amount"),
                        n_threads |-> DictGet(data, "n_threads")]

\* any() in place of all()
MatchesAny(kws, name) ==
    \E k \in 1..Len(kws) : Contains(lower(kws[k]), lower(name))

\* all(keyword in child.name.lower() for keyword in keywords), keywords lowered
MatchesAll(kws, name) ==
    \A k \in 1..Len(kws) : Contains(lower(kws[k]), lower(name))

\* the loop of find_runs_by_keyword over the sorted children; the result is
\* [raised, runs]: raised when an exception leaves the loop
RECURSIVE ScanChildren(_, _, _)
ScanChildren(kws, fsys, children) ==
    IF children = <<>> THEN [raised |-> FALSE, runs |-> <<>>]
    ELSE LET child == Head(children)
             rest  == ScanChildren(kws, fsys, Tail(children))
         IN  IF fsys[child].kind # "dir" THEN rest
             ELSE IF ~MatchesAll(kws, child) THEN rest
             ELSE LET meta == load_metadata(child, fsys[child]) IN
                  IF meta.t = "raise" THEN [raised |-> TRUE, runs |-> <<>>]
                  ELSE IF meta.t = "None" THEN rest
                  ELSE [raised |-> rest.raised,
                        runs |-> IF rest.raised THEN <<>> ELSE <<meta>> \o rest.runs]

find_runs_by_keyword(kws, fsys) ==
    ScanChildren(kws, fsys, sorted({d \in DOMAIN fsys : fsys[d].kind # "absent"}))

-----------------------------------------------------------------------------
(* The exporter: save_data, save_metadata *)

\* open(os.path.join(save_dir, filename), "w") after the makedirs of a missing
\* save_dir; the result is [raised, entry]
save_data(data, entry, filename) ==
    LET made == IF entry.kind = "absent" THEN Dir(NoMeta, {}) ELSE entry IN
    IF made.kind # "dir" THEN [raised |-> TRUE, entry |-> made]
    ELSE IF filename = "metadata.json"
    THEN IF \/ made.meta.e \in {"dir", "denied"}
            \/ (made.meta.e = "file" /\ made.meta.content.c = "unreadable")
         THEN [raised |-> TRUE, entry |-> made]
         ELSE [raised |-> FALSE,
               entry |-> [made EXCEPT !.meta = MetaFile(JsonDoc(data))]]
    ELSE [raised |-> FALSE,
          entry |-> [made EXCEPT !.files = @ \cup {filename}]]

BaseKeys == {"workload", "messages_per_second", "n_partitions", "n_keys",
             "start", "end", "duration (s)", "zipf_const", "epoch_size"}

\* the dict with increase_amount guarded by interval_seconds, as a copied
\* "if interval_seconds is not None" would
metadata_OneGuard(a) ==
    LET keys == BaseKeys
                \cup (IF a.interval_seconds.t # "None"
                      THEN {"increase_interval", "increase_amount"} ELSE {})
                \cup {"n_threads"}
    IN  ObjV([k \in keys |->
              CASE k = "workload" -> a.workload
                [] k = "messages_per_second" -> a.messages_per_second
                [] k = "n_partitions" -> a.n_partitions
                [] k = "n_keys" -> a.n_keys
                [] k = "start" -> isoformat(fromtimestamp(a.start))
                [] k = "end" -> isoformat(fromtimestamp(a.end))
                [] k = "duration (s)" -> a.seconds
                [] k = "zipf_const" -> a.zipf_const
                [] k = "epoch_size" -> a.epoch_size
                [] k = "increase_interval" -> a.interval_seconds
                [] k = "increase_amount" -> a.delta_tps
                [] k = "n_threads" -> IntV(1)])

\* the dict save_metadata builds from its arguments
metadata(a) ==
    LET keys == BaseKeys
                \cup (IF a.interval_seconds.t # "None" THEN {"increase_interval"} ELSE {})
                \cup (IF a.delta_tps.t # "None" THEN {"increase_amount"} ELSE {})
                \cup {"n_threads"}
    IN  ObjV([k \in keys |->
              CASE k = "workload" -> a.workload
                [] k = "messages_per_second" -> a.messages_per_second
                [] k = "n_partitions" -> a.n_partitions
                [] k = "n_keys" -> a.n_keys
                [] k = "start" -> isoformat(fromtimestamp(a.start))
                [] k = "end" -> isoformat(fromtimestamp(a.end))
                [] k = "duration (s)" -> a.seconds
                [] k = "zipf_const" -> a.zipf_const
                [] k = "epoch_size" -> a.epoch_size
                [] k = "increase_interval" -> a.interval_seconds
                [] k = "increase_amount" -> a.delta_tps
                [] k = "n_threads" -> IntV(1)])

save_metadata(a, fsys) ==
    LET r == save_data(metadata(a), fsys[a.out_path], "metadata.json")
    IN  [raised |-> r.raised, fs |-> [fsys EXCEPT ![a.out_path] = r.entry]]

\* the arguments of a save_metadata call
Args(out_path, start, end, interval_seconds, delta_tps) ==
    [workload |-> StrV("ycsb"), start |-> start, end |-> end,
     out_path |-> out_path, n_partitions |-> IntV(4),
     messages_per_second |-> IntV(5000), n_keys |-> IntV(100),
     seconds |-> IntV(60), interval_seconds |-> interval_seconds,
     delta_tps |-> delta_tps, zipf_const |-> IntV(0), epoch_size |-> IntV(100)]

Timestamps == 0..MaxTs
OptInts == {None, IntV(5), IntV(7)}

-----------------------------------------------------------------------------
(* The exporter: export_all_metrics, get_metric_data *)

\* the catalog with "memory" entered under the key "latency" again: the dict
\* keeps one entry for the two
metric_set_DuplicateKey ==
    <<"latency", "throughput", "latency_breakdown", "transaction_latency",
      "snapshotting_time", "backpressure", "queue_backlog">>

\* the names of metric_set, in the order the dict lists them
metric_set == <<"latency", "memory", "throughput", "latency_breakdown",
                "transaction_latency", "snapshotting_time", "backpressure",
                "queue_backlog">>

MetricNames == {metric_set[i] : i \in 1..Len(metric_set)}
FileNames == MetricNames \cup {"metadata.json"}

\* a Prometheus response: the status code and whether the body is JSON
Responses == [status : {200, 304, 404, 503}, json : BOOLEAN]

\* resp.raise_for_status(): HTTPError for the 4xx and 5xx statuses
raise_for_status(resp) == 400 <= resp.status /\ resp.status < 600

\* get_metric_data without resp.raise_for_status()
get_metric_data_NoRaise(resp) ==
    IF ~resp.json THEN Raise ELSE [t |-> "json"]

\* raises on an error status and on a body resp.json() cannot decode
get_metric_data(resp) ==
    IF raise_for_status(resp) THEN Raise
    ELSE IF ~resp.json THEN Raise
    ELSE [t |-> "json"]

\* export_all_metrics starting from an emptied output subdirectory
ExportStart_Clean(d) ==
    /\ epc = "idle"
    /\ epc' = "exporting"
    /\ save_dir' = d
    /\ eidx' = 0
    /\ fs' = [fs EXCEPT ![d] = IF @.kind = "file" THEN @ ELSE Dir(NoMeta, {})]
    /\ UNCHANGED <<browserVars, margs, wrote, asked, saves, lastResp>>

\* export_all_metrics up to its loop: the output subdirectory d is made when
\* nothing of that name exists
ExportStart(d) ==
    /\ epc = "idle"
    /\ epc' = "exporting"
    /\ save_dir' = d
    /\ eidx' = 0
    /\ fs' = [fs EXCEPT ![d] = IF @.kind = "absent" THEN Dir(NoMeta, {}) ELSE @]
    /\ UNCHANGED <<browserVars, margs, wrote, asked, saves, lastResp>>

\* one turn of the loop: the range query for the next catalog entry, then the
\* write of <metric_name>.json
ExportMetric(resp) ==
    /\ epc = "exporting"
    /\ LET metric_name == metric_set[eidx + 1]
           data == get_metric_data(resp)
           canOpen == fs[save_dir].kind = "dir" /\ fs[save_dir].meta.e # "denied"
       IN  /\ asked' = [asked EXCEPT ![metric_name] = @ + 1]
           /\ lastResp' = resp
           /\ IF data.t = "raise" \/ ~canOpen
              THEN /\ epc' = "failed"
                   /\ UNCHANGED <<fs, wrote, eidx>>
              ELSE /\ fs' = [fs EXCEPT ![save_dir].files = @ \cup {metric_name}]
                   /\ wrote' = [wrote EXCEPT ![metric_name] = @ + 1]
                   /\ eidx' = eidx + 1
                   /\ epc' = IF eidx + 1 = Len(metric_set) THEN "done" ELSE "exporting"
    /\ UNCHANGED <<browserVars, margs, save_dir, saves>>

\* a call of save_metadata with the arguments a
SaveMetadata(a) ==
    /\ epc \in {"idle", "done"}
    /\ saves < MaxSaves
    /\ saves' = saves + 1
    /\ LET r == save_metadata(a, fs)
       IN  /\ fs' = r.fs
           /\ IF r.raised
              THEN /\ epc' = "failed"
                   /\ UNCHANGED wrote
              ELSE /\ epc' = epc
                   /\ wrote' = [wrote EXCEPT !["metadata.json"] = @ + 1]
    /\ UNCHANGED <<browserVars, margs, save_dir, eidx, asked, lastResp>>

-----------------------------------------------------------------------------
(* The run browser: interactive_select and main *)

Whitespace == {" "}
DecimalValue == [c \in {"0", "1", "2", "3"} |->
                   CASE c = "0" -> 0 [] c = "1" -> 1 [] c = "2" -> 2 [] c = "3" -> 3]
\* str.isdigit() accepts the decimal digits and the other Unicode digits, such
\* as SUPERSCRIPT TWO, written "sup2" here
DigitChars == DOMAIN DecimalValue \cup {"sup2"}

RECURSIVE strip(_)
strip(s) ==
    IF s = <<>> THEN s
    ELSE IF Head(s) \in Whitespace THEN strip(Tail(s))
    ELSE IF s[Len(s)] \in Whitespace THEN strip(SubSeq(s, 1, Len(s) - 1))
    ELSE s

isdigit(s) == Len(s) > 0 /\ \A i \in 1..Len(s) : s[i] \in DigitChars

RECURSIVE DecVal(_)
DecVal(s) ==
    IF s = <<>> THEN 0
    ELSE DecVal(SubSeq(s, 1, Len(s) - 1)) * 10 + DecimalValue[s[Len(s)]]

\* int(s): ValueError for a string that is not a decimal literal
py_int(s) ==
    IF Len(s) > 0 /\ \A i \in 1..Len(s) : s[i] \in DOMAIN DecimalValue
    THEN IntV(DecVal(s))
    ELSE Raise

QuitWords == {<<"q">>, <<"q", "u", "i", "t">>, <<"e", "x", "i", "t">>}

\* one turn of the while loop of interactive_select on the typed text:
\* [act, value] with act "return", "continue" or "raise"
interactive_select(rs, typed) ==
    LET choice == strip(typed) IN
    IF lower(choice) \in QuitWords THEN [act |-> "return", value |-> None]
    ELSE IF ~isdigit(choice) THEN [act |-> "continue", value |-> None]
    ELSE LET idx == py_int(choice) IN
         IF idx.t = "raise" THEN [act |-> "raise", value |-> None]
         ELSE IF ~(1 <= idx.i /\ idx.i <= Len(rs))
         THEN [act |-> "continue", value |-> None]
         ELSE [act |-> "return", value |-> rs[idx.i]]

\* the text typed at the prompt
Inputs == {<<>>, <<"q">>, <<" ", "Q", "u", "i", "t", " ">>, <<"E", "x", "i", "T">>,
           <<"a", "b">>, <<"0">>, <<"1">>, <<" ", "0", "2">>, <<"3">>, <<"1", "0">>,
           <<"sup2">>}

\* main: runs = find_runs_by_keyword(args.keyword), then interactive_select up
\* to its first prompt
Scan ==
    /\ bpc = "scan"
    /\ LET r == find_runs_by_keyword(keywords, fs)
       IN  /\ runs' = r.runs
           /\ fsAtScan' = fs
           /\ bpc' = IF r.raised THEN "crashed"
                     ELSE IF r.runs = <<>> THEN "exited"
                     ELSE "prompt"
           /\ selected' = IF ~r.raised /\ r.runs = <<>> THEN None ELSE selected
    /\ UNCHANGED <<fs, keywords, opens, lastUrl, lastInput, margs, exportVars>>

\* one line typed at the prompt of interactive_select
Prompt(typed) ==
    /\ bpc = "prompt"
    /\ lastInput' = typed
    /\ LET r == interactive_select(runs, typed)
       IN  /\ selected' = IF r.act = "return" THEN r.value ELSE selected
           /\ bpc' = IF r.act = "raise" THEN "crashed"
                     ELSE IF r.act = "continue" THEN "prompt"
                     ELSE IF r.value.t = "None" THEN "exited"
                     ELSE "open"
           /\ r.value.t # "None" => opens < MaxOpens
    /\ UNCHANGED <<fs, keywords, runs, opens, lastUrl, fsAtScan, margs, exportVars>>

\* main: build_grafana_url and webbrowser.open for the selected run
OpenUrl ==
    /\ bpc = "open"
    /\ lastUrl' = build_grafana_url(selected.start, selected.end)
    /\ opens' = opens + 1
    /\ bpc' = "scan"
    /\ UNCHANGED <<fs, keywords, runs, selected, lastInput, fsAtScan, margs, exportVars>>

-----------------------------------------------------------------------------
(* Contents the results directory can start with *)

ValidDoc(s, e) == JsonDoc(ObjV([k \in {"start", "end"} |->
                                  IF k = "start" THEN IsoV(s) ELSE IsoV(e)]))

BadDocs ==
    {Unreadable, Malformed, JsonDoc(None), JsonDoc(ArrV),
     JsonDoc(ObjV([k \in {"end"} |-> IsoV(FallBack)])),
     JsonDoc(ObjV([k \in {"start"} |-> IsoV(FallBack)])),
     JsonDoc(ObjV([k \in {"start", "end"} |->
                     IF k = "start" THEN StrV("yesterday") ELSE IsoV(FallBack)])),
     JsonDoc(ObjV([k \in {"start", "end"} |->
                     IF k = "start" THEN IsoV(FallBack) ELSE IntV(FallBack)]))}

AnyEntries ==
    {AbsentEntry, PlainFile, Dir(NoMeta, {}), Dir(MetaIsDir, {}), Dir(MetaDenied, {})}
    \cup {Dir(MetaFile(c), {}) : c \in BadDocs}
    \cup {Dir(MetaFile(ValidDoc(FallBack, MaxTs)), {})}

KeywordStrings == {<<>>, <<"A", "B">>, <<"b", "a">>}
KeywordLists ==
    UNION {[1..n -> KeywordStrings] : n \in 1..MaxKeywords}

\* what is the same at the start of every run
InitRest ==
    /\ bpc = "scan"
    /\ runs = <<>>
    /\ selected = None
    /\ opens = 0
    /\ lastUrl = None
    /\ lastInput = <<>>
    /\ fsAtScan = fs
    /\ epc = "idle"
    /\ save_dir = <<>>
    /\ eidx = 0
    /\ wrote = [f \in FileNames |-> 0]
    /\ asked = [m \in MetricNames |-> 0]
    /\ saves = 0
    /\ lastResp = None

-----------------------------------------------------------------------------
(* Spec: the run browser and the exporter working on one results directory *)

SysEntries == {AbsentEntry, Dir(MetaFile(ValidDoc(FallBack, MaxTs)), {})}
SysArgs == {Args(d, 0, MaxTs, None, IntV(5)) : d \in DirNames}
SysInputs == {<<"q">>, <<"1">>, <<"a", "b">>}
SysResponses == {r \in Responses : r.json /\ r.status \in {200, 503}}

Init ==
    /\ fs \in [DirNames -> SysEntries]
    /\ keywords = <<<<"b">>>>
    /\ margs = None
    /\ InitRest

Next ==
    \/ Scan
    \/ \E typed \in SysInputs : Prompt(typed)
    \/ OpenUrl
    \/ \E a \in SysArgs : SaveMetadata(a)
    \/ \E d \in DirNames : ExportStart(d)
    \/ \E resp \in SysResponses : ExportMetric(resp)

Spec == Init /\ [][Next]_vars

-----------------------------------------------------------------------------
(* SpecBrowser: the main loop of the run browser, with save_metadata calls  *)
(* changing the results directory between its scans                        *)

BrowserEntries ==
    {AbsentEntry, Dir(MetaFile(Malformed), {}),
     Dir(MetaFile(ValidDoc(FallBack, MaxTs)), {})}
BrowserArgs == {Args(d, s, MaxTs, None, None) : d \in DirNames, s \in {0, FallBack}}

InitBrowser ==
    /\ fs \in [DirNames -> BrowserEntries]
    /\ keywords \in {<<<<"b">>>>, <<<<"A", "B">>, <<"a">>>>}
    /\ margs = None
    /\ InitRest

NextBrowser ==
    \/ Scan
    \/ \E typed \in Inputs : Prompt(typed)
    \/ OpenUrl
    \/ \E a \in BrowserArgs : SaveMetadata(a)

SpecBrowser == InitBrowser /\ [][NextBrowser]_vars

-----------------------------------------------------------------------------
(* SpecScan: find_runs_by_keyword on every content of the results directory *)

InitScan ==
    /\ fs \in [DirNames -> AnyEntries]
    /\ keywords \in KeywordLists
    /\ margs = None
    /\ InitRest

SpecScan == InitScan /\ [][Scan]_vars

-----------------------------------------------------------------------------
(* SpecExport: one run of the exporter *)

ExportEntries ==
    {AbsentEntry, PlainFile, Dir(NoMeta, {}), Dir(NoMeta, {metric_set[1]}),
     Dir(NoMeta, MetricNames)}
ExportArgs == {Args(d, 0, MaxTs, None, None) : d \in DirNames}

InitExport ==
    /\ fs \in [DirNames -> ExportEntries]
    /\ keywords = <<<<"b">>>>
    /\ margs = None
    /\ InitRest

NextExport ==
    \/ \E a \in ExportArgs : SaveMetadata(a)
    \/ \E d \in DirNames : ExportStart(d)
    \/ \E resp \in Responses : ExportMetric(resp)

SpecExport == InitExport /\ [][NextExport]_vars

-----------------------------------------------------------------------------
(* SpecMeta: one save_metadata call into an empty results directory, read   *)
(* back by the run browser                                                 *)

MetaArgs ==
    {Args(d, s, e, i, a) : d \in DirNames, s \in Timestamps, e \in Timestamps,
                           i \in OptInts, a \in OptInts}
MetaInputs == {<<"1">>, <<"q">>}

InitMeta ==
    /\ fs = [d \in DirNames |-> AbsentEntry]
    /\ keywords = <<<<>>>>
    /\ margs \in MetaArgs
    /\ InitRest

NextMeta ==
    \/ SaveMetadata(margs)
    \/ Scan
    \/ \E typed \in MetaInputs : Prompt(typed)
    \/ OpenUrl

SpecMeta == InitMeta /\ [][NextMeta]_vars

-----------------------------------------------------------------------------
(* Claims about find_runs_by_keyword (SpecScan) *)

Scanned == bpc # "scan"
RunNames == {runs[i].dir_name : i \in 1..Len(runs)}

\* a metadata.json that exists, parses as JSON, and has start and end, both
\* ISO timestamps
ValidMeta(entry) ==
    /\ entry.kind = "dir"
    /\ entry.meta.e = "file"
    /\ entry.meta.content.c = "json"
    /\ entry.meta.content.v.t = "object"
    /\ {"start", "end"} \subseteq DOMAIN entry.meta.content.v.f
    /\ entry.meta.content.v.f["start"].t = "isostr"
    /\ entry.meta.content.v.f["end"].t = "isostr"

\* the same letter, whatever the case
SameLetter(a, b) ==
    \/ a = b
    \/ a \in DOMAIN UpperOf /\ UpperOf[a] = b
    \/ b \in DOMAIN UpperOf /\ UpperOf[b] = a

\* kw occurs in name, case ignored
OccursIgnoringCase(kw, name) ==
    \E off \in 0..(Len(name) - Len(kw)) :
        \A j \in 1..Len(kw) : SameLetter(kw[j], name[off + j])

\* C3: the scan never raises, and a keyword-matching subdirectory is in the
\* returned list exactly when its metadata.json exists, parses as JSON and has
\* start and end, both parseable; every other one is left out and the scan
\* goes on with the remaining subdirectories
C3_ScanSkipsInvalid ==
    Scanned =>
        /\ bpc # "crashed"
        /\ \A d \in DirNames :
              (fsAtScan[d].kind = "dir" /\ MatchesAll(keywords, d)) =>
                  (d \in RunNames <=> ValidMeta(fsAtScan[d]))

\* C7: a subdirectory is considered exactly when every keyword occurs in its
\* name, case ignored: of the subdirectories with a valid metadata.json a scan
\* lists those and no other, one matching only some keywords is left out, the
\* list is empty when none matches them all, and a scan fails only on a
\* subdirectory that matches them all
C7_AllKeywordsIgnoringCase ==
    Scanned =>
        /\ bpc # "crashed" =>
              \A d \in DirNames :
                  ValidMeta(fsAtScan[d]) =>
                      (d \in RunNames <=>
                          \A k \in 1..Len(keywords) : OccursIgnoringCase(keywords[k], d))
        /\ bpc = "crashed" =>
              \E d \in DirNames :
                  /\ fsAtScan[d].kind = "dir"
                  /\ \A k \in 1..Len(keywords) : OccursIgnoringCase(keywords[k], d)
        /\ (~\E d \in DirNames :
               /\ fsAtScan[d].kind = "dir"
               /\ \A k \in 1..Len(keywords) : OccursIgnoringCase(keywords[k], d))
           => (runs = <<>> /\ bpc = "exited")

\* a listing with a run whose name has a keyword only in another case, and
\* without a valid run that has only one of the two keywords
C7_Witness ==
    /\ bpc = "prompt"
    /\ Len(keywords) = 2
    /\ \E d \in RunNames : \E k \in 1..2 : ~Contains(keywords[k], d)
    /\ \E d \in DirNames :
          /\ ValidMeta(fsAtScan[d])
          /\ d \notin RunNames
          /\ \E k \in 1..2 : OccursIgnoringCase(keywords[k], d)

-----------------------------------------------------------------------------
(* Claims about save_metadata and the round trip of start and end (SpecMeta) *)

\* the save_metadata call was made and returned
Saved == saves = 1 /\ epc # "failed"
Written == fs[margs.out_path].meta.content.v.f

\* C6: the written object has increase_interval exactly when interval_seconds
\* is not null and increase_amount exactly when delta_tps is not null, each
\* decided on its own; a key that is present holds the input value, never null
C6_RampKeysIffNotNull ==
    Saved =>
        /\ "increase_interval" \in DOMAIN Written <=> margs.interval_seconds.t # "None"
        /\ "increase_amount" \in DOMAIN Written <=> margs.delta_tps.t # "None"
        /\ "increase_interval" \in DOMAIN Written =>
              /\ Written["increase_interval"] = margs.interval_seconds
              /\ Written["increase_interval"].t # "None"
        /\ "increase_amount" \in DOMAIN Written =>
              /\ Written["increase_amount"] = margs.delta_tps
              /\ Written["increase_amount"].t # "None"

\* a written object with increase_amount and without increase_interval
C6_Witness ==
    /\ Saved
    /\ margs.interval_seconds.t = "None"
    /\ margs.delta_tps.t = "int"
    /\ "increase_amount" \in DOMAIN Written
    /\ "increase_interval" \notin DOMAIN Written

\* C10: the metadata.json save_metadata writes for whole-second timestamps
\* start and end is listed as a valid run, and the URL opened for it has
\* from = start * 1000 and to = end * 1000, also for timestamps in a local
\* hour that occurs twice
C10_RoundTrip ==
    /\ (Saved /\ Scanned /\ fsAtScan = fs) => margs.out_path \in RunNames
    /\ (Saved /\ fsAtScan = fs /\ opens = 1) =>
          /\ lastUrl.from = margs.start * 1000
          /\ lastUrl.to = margs.end * 1000

-----------------------------------------------------------------------------
(* Claims about the main loop of the run browser (SpecBrowser) *)

Terminated == bpc \in {"exited", "crashed"}

\* q, quit or exit, in any case, with blanks around it
IsQuit(typed) ==
    \E w \in QuitWords : \E l, r \in 0..Len(typed) :
        /\ l + Len(w) + r = Len(typed)
        /\ \A i \in 1..l : typed[i] = " "
        /\ \A i \in 1..r : typed[l + Len(w) + i] = " "
        /\ \A i \in 1..Len(w) : SameLetter(typed[l + i], w[i])

\* the decimal number typed, blanks around it dropped; 0 for any other text
NumberTyped(typed) ==
    LET r == py_int(strip(typed)) IN IF r.t = "int" THEN r.i ELSE 0

IsSelection(typed, rs) == NumberTyped(typed) \in 1..Len(rs)

\* C1: the tool ends only after a quit sentinel was typed or after a scan
\* found no run, and a valid selection is followed by one browser launch for
\* the selected run, then by a fresh scan, never by an exit
C1_MainLoop ==
    [][/\ (bpc = "scan" /\ Terminated') => (bpc' = "exited" /\ runs' = <<>>)
       /\ (bpc = "prompt" /\ Terminated') => (bpc' = "exited" /\ IsQuit(lastInput'))
       /\ \A typed \in Inputs :
             (Prompt(typed) /\ IsSelection(typed, runs)) =>
                 (bpc' = "open" /\ selected' = runs[NumberTyped(typed)])
       /\ bpc = "open" =>
             \/ UNCHANGED browserVars
             \/ /\ bpc' = "scan"
                /\ opens' = opens + 1
                /\ lastUrl' = build_grafana_url(selected.start, selected.end)
       /\ (bpc = "scan" /\ bpc' # "scan") => fsAtScan' = fs]_vars

\* C2: a text typed at the prompt that is neither a quit sentinel nor a number
\* in 1..len(runs) is rejected: nothing is raised, no run is returned, no
\* browser is opened, nothing is scanned again, the list stays as it is and
\* the prompt comes again
C2_InvalidInputReprompts ==
    [][\A typed \in Inputs :
          (Prompt(typed) /\ ~IsQuit(typed) /\ ~IsSelection(typed, runs)) =>
              /\ bpc' = "prompt"
              /\ runs' = runs
              /\ selected' = selected
              /\ opens' = opens
              /\ lastUrl' = lastUrl
              /\ fsAtScan' = fsAtScan
              /\ fs' = fs]_vars

\* the earliest instant, in milliseconds, at which the local clock reads w
EpochMsOfWall(w) ==
    1000 * (CHOOSE u \in (w - Shift)..w :
               /\ localtime(u) = w
               /\ \A v \in (w - Shift)..(u - 1) : localtime(v) # w)

StartOnDisk(d) == fsAtScan[d].meta.content.v.f["start"].wall
EndOnDisk(d) == fsAtScan[d].meta.content.v.f["end"].wall

\* C8: the list is in the lexicographic order of the directory names and is
\* the one of the most recent scan; the number i typed selects its i-th run,
\* and the URL opened has from and to of that run's start and end on disk at
\* that scan
C8_SelectionOpensThatRun ==
    /\ \A i, j \in 1..Len(runs) :
          i < j => StrLess(runs[i].dir_name, runs[j].dir_name)
    /\ \A i \in 1..Len(runs) :
          /\ ValidMeta(fsAtScan[runs[i].dir_name])
          /\ runs[i].start.wall = StartOnDisk(runs[i].dir_name)
          /\ runs[i].end.wall = EndOnDisk(runs[i].dir_name)
    /\ (bpc = "open" \/ (bpc = "scan" /\ opens > 0)) =>
          /\ IsSelection(lastInput, runs)
          /\ selected = runs[NumberTyped(lastInput)]
    /\ (bpc = "scan" /\ opens > 0) =>
          /\ lastUrl.from = EpochMsOfWall(StartOnDisk(selected.dir_name))
          /\ lastUrl.to = EpochMsOfWall(EndOnDisk(selected.dir_name))

\* the second launch of a session, for the second run of a list whose first
\* run has another start, after a save_metadata call
C8_Witness ==
    /\ bpc = "scan"
    /\ opens = 2
    /\ saves = 1
    /\ Len(runs) >= 2
    /\ selected = runs[2]
    /\ runs[1].start.wall # runs[2].start.wall
    /\ lastUrl.from # lastUrl.to

-----------------------------------------------------------------------------
(* Claim about metadata.json under every operation of the two tools (Spec) *)

\* C9 as stated: whatever the operation, a metadata.json that exists keeps its
\* content and is not deleted
C9_MetadataNeverChanges ==
    [][\A d \in DirNames :
          fs[d].meta.e = "file" => fs'[d].meta = fs[d].meta]_vars

\* C9 as amended: a metadata.json that exists is never deleted, and only a
\* save_metadata call with its directory as out_path changes its content
C9_OnlySaveMetadataOverwrites ==
    [][\A d \in DirNames :
          fs[d].meta.e = "file" =>
              /\ fs'[d].meta.e = "file"
              /\ fs'[d].meta # fs[d].meta =>
                    \E a \in SysArgs : a.out_path = d /\ SaveMetadata(a)]_vars

\* a directory with a metadata.json into which an export has written metric
\* files, after a save_metadata call and a browser launch
C9_Witness ==
    /\ saves = 1
    /\ opens >= 1
    /\ \E d \in DirNames :
          /\ fs[d].meta.e = "file"
          /\ fs[d].files # {}
          /\ save_dir = d

-----------------------------------------------------------------------------
(* Claims about export_all_metrics (SpecExport) *)

Answered == "status" \in DOMAIN lastResp
Exported == {metric_set[i] : i \in 1..eidx}

\* what an aborted export leaves: the entries before the failed one queried and
\* written once, the failed one queried once and not written, the later ones
\* neither queried nor written
AbortedAtFirstFailure ==
    /\ epc = "failed"
    /\ eidx < Len(metric_set)
    /\ \A i \in 1..Len(metric_set) :
          /\ asked[metric_set[i]] = (IF i <= eidx + 1 THEN 1 ELSE 0)
          /\ wrote[metric_set[i]] = (IF i <= eidx THEN 1 ELSE 0)

====
